---- MODULE Spec2Model ----
(***************************************************************************)
(* A model of the mongo package (a reflective CRUD wrapper over mgo).      *)
(*                                                                         *)
(* The state is the package's globals (mgoSession, database), the caller's *)
(* records that the package mutates through pointers (heap), the wrapped   *)
(* driver's documents (store), the object-id generator, the clock and the  *)
(* number of cloned sessions that are open.  lastCall records what the     *)
(* last operation was given and what it returned.                          *)
(*                                                                         *)
(* Time is counted in ticks of the stored resolution; the clock does not   *)
(* advance inside one call.                                                *)
(***************************************************************************)
EXTENDS Integers, Sequences, FiniteSets, TLC

\* ------------------------------------------------------------------ bounds
NObj == 2           \* records the caller holds
MaxIds == 2         \* object ids that can be generated
MaxTime == 2        \* clock ticks
MaxBatch == 2       \* records in one Insert call

Slots == 1..NObj
DBNames == {"test"}

\* ------------------------------------------------------- caller's types
\* The struct types a caller passes in. MongoTest is the test's type and
\* Customer the README's; the others differ in the kind of the Id field and
\* of the timestamp fields.
StructNames == {"MongoTest", "Customer", "Account", "Note", "Tag"}

Schema(name) ==
  CASE name = "MongoTest" -> [id |-> "ObjectId", created |-> "time",   updated |-> "time"]
    [] name = "Customer"  -> [id |-> "ObjectId", created |-> "none",   updated |-> "none"]
    [] name = "Account"   -> [id |-> "Id",       created |-> "none",   updated |-> "none"]
    [] name = "Note"      -> [id |-> "string",   created |-> "string", updated |-> "none"]
    [] name = "Tag"       -> [id |-> "none",     created |-> "none",   updated |-> "none"]

\* ---------------------------------------------------------- identifiers
\* A bson.ObjectId is [k |-> "oid", n]: n = 0 is ObjectId(""), n >= 1 a valid
\* 12-byte id. A string is [k |-> "hex", n]: n = 0 is "", n >= 1 the 24
\* character hex form of object id n.
Oid(n) == [k |-> "oid", n |-> n]
HexStr(n) == [k |-> "hex", n |-> n]
NoId == [k |-> "none", n |-> 0]

Valid(id) == id.k = "oid" /\ id.n >= 1
Hex(id) == HexStr(id.n)
IsObjectIdHex(s) == s.k = "hex" /\ s.n >= 1
\* bson.ObjectIdHex panics when the string is no hex object id
ObjectIdHex(s) == IF IsObjectIdHex(s) THEN [panic |-> FALSE, id |-> Oid(s.n)]
                  ELSE [panic |-> TRUE, id |-> Oid(0)]

ZeroId(kind) == CASE kind = "ObjectId" -> Oid(0)
                  [] kind = "Id" -> HexStr(0)
                  [] kind = "string" -> HexStr(0)
                  [] OTHER -> NoId

\* Id.GetBSON
GetBSON(i) == ObjectIdHex(i)
\* Id.SetBSON: the raw value must unmarshal into an ObjectId
SetBSON(raw) == IF raw.k = "oid" THEN [err |-> "nil", id |-> Hex(raw)]
                ELSE [err |-> "unmarshal", id |-> HexStr(0)]

\* ------------------------------------------------------------ reflection
\* A Go type is a sequence of constructors ending in a named type:
\* <<"ptr", "slice", "MongoTest">> is *[]MongoTest.
Kind(t) == IF t = <<>> THEN "Invalid"
           ELSE IF t[1] = "ptr" THEN "Ptr"
           ELSE IF t[1] = "slice" THEN "Slice"
           ELSE IF t[1] = "int" THEN "Int"
           ELSE "Struct"
Elem(t) == Tail(t)
TypeNameOf(t) == IF Len(t) = 1 THEN t[1] ELSE ""

\* An argument: its form and the caller's record it refers to.
ArgType(a, hp) ==
  CASE a.form = "ptr"         -> <<"ptr", hp[a.ref].type>>
    [] a.form = "val"         -> <<hp[a.ref].type>>
    [] a.form = "ptrslice"    -> <<"ptr", "slice", hp[a.ref].type>>
    [] a.form = "slice"       -> <<"slice", hp[a.ref].type>>
    [] a.form = "ptrsliceptr" -> <<"ptr", "slice", "ptr", hp[a.ref].type>>
    [] a.form = "ptrint"      -> <<"ptr", "int">>

\* a check that lets struct values pass as well
isPtrOrStruct(t) == Kind(t) \in {"Ptr", "Struct"}

isPtr(t) == Kind(t) = "Ptr"

isSlice(t) == LET u == IF Kind(t) = "Ptr" THEN Elem(t) ELSE t
              IN Kind(u) = "Slice"

\* a type name that does not look into slices
typeNameNoSlice(t0) == TypeNameOf(IF Kind(t0) = "Ptr" THEN Elem(t0) ELSE t0)

typeName(t0) ==
  LET t1 == IF Kind(t0) = "Ptr" THEN Elem(t0) ELSE t0
      t2 == IF isSlice(t1)
            THEN LET e == Elem(t1)
                 IN IF Kind(e) = "Ptr" THEN Elem(e) ELSE e
            ELSE t1
  IN TypeNameOf(t2)

\* the struct an argument's value is, after the pointer is followed
Deref(t) == IF Kind(t) = "Ptr" THEN Elem(t) ELSE t

hasStructField(t, field) ==
  LET u == Deref(t)
  IN IF Kind(u) # "Struct" THEN FALSE
     ELSE IF field = "CreatedAt" THEN Schema(u[1]).created # "none"
     ELSE IF field = "UpdatedAt" THEN Schema(u[1]).updated # "none"
     ELSE Schema(u[1]).id # "none"

FieldType(u, field) ==
  IF field = "CreatedAt" THEN Schema(u[1]).created ELSE Schema(u[1]).updated

\* ---------------------------------------------------------------- state
VARIABLES
  heap,        \* the caller's records: slot -> [type, Id, CreatedAt, UpdatedAt]
  store,       \* the driver's documents: [db, coll, id, CreatedAt, UpdatedAt]
  idCounter,   \* object ids generated so far (bson.NewObjectId)
  now,         \* the clock (time.Now)
  mgoSession,  \* TRUE when the shared session is dialled, FALSE when nil
  database,    \* the database name
  open,        \* cloned sessions that are open
  lastCall     \* the last operation: what it was given and what it returned

vars == <<heap, store, idCounter, now, mgoSession, database, open, lastCall>>

ZeroRec(T) == [type |-> T, Id |-> ZeroId(Schema(T).id), CreatedAt |-> 0, UpdatedAt |-> 0]

NoCall == [op |-> "none", recs |-> <<>>, id |-> HexStr(0), err |-> "nil",
           failIdx |-> 0, n |-> 0, peak |-> 0, populated |-> FALSE, rows |-> {}]

\* the record an argument refers to (a pointer to a non-struct has none)
RecOf(a, hp) == IF a.ref \in Slots THEN hp[a.ref] ELSE ZeroRec("Tag")

\* ------------------------------------------------------ field injection
\* addCurrentDateTime on a value of type t: the record after and the error
addCurrentDateTime(t, rec, name, clock) ==
  IF ~hasStructField(t, name) THEN [rec |-> rec, err |-> "nil"]
  ELSE IF FieldType(Deref(t), name) # "time"
       THEN [rec |-> rec, err |-> "must be time.Time"]
  ELSE IF ~isPtr(t) THEN [rec |-> rec, err |-> "cannot set"]
  ELSE [rec |-> [rec EXCEPT ![name] = clock], err |-> "nil"]

\* an addId that sets object id fields only
addIdNativeOnly(t, rec, idc) ==
  LET v == IF Kind(t) = "Ptr" THEN Elem(t) ELSE t
  IN IF Kind(v) # "Struct"
     THEN [rec |-> rec, idc |-> idc, err |-> "must be a struct"]
     ELSE IF Schema(v[1]).id = "ObjectId"
     THEN [rec |-> [rec EXCEPT !.Id = Oid(idc + 1)], idc |-> idc + 1, err |-> "nil"]
     ELSE [rec |-> rec, idc |-> idc, err |-> "nil"]

\* addId: a field of a string kind always gets a new object id
addId(t, rec, idc) ==
  LET v == Deref(t)
  IN IF Kind(v) # "Struct"
     THEN [rec |-> rec, idc |-> idc, err |-> "must be a struct"]
     ELSE LET kind == Schema(v[1]).id
          IN IF kind = "ObjectId"
             THEN [rec |-> [rec EXCEPT !.Id = Oid(idc + 1)], idc |-> idc + 1, err |-> "nil"]
             ELSE IF kind \in {"Id", "string"}
             THEN [rec |-> [rec EXCEPT !.Id = Hex(Oid(idc + 1))], idc |-> idc + 1, err |-> "nil"]
             ELSE [rec |-> rec, idc |-> idc, err |-> "nil"]

\* an addNewFields that does not set CreatedAt
addNewFieldsNoCreatedAt(t, rec, idc, clock) ==
  IF addId(t, rec, idc).err # "nil" THEN addId(t, rec, idc)
  ELSE [rec |-> addCurrentDateTime(t, addId(t, rec, idc).rec, "UpdatedAt", clock).rec,
        idc |-> addId(t, rec, idc).idc,
        err |-> addCurrentDateTime(t, addId(t, rec, idc).rec, "UpdatedAt", clock).err]

addNewFields(t, rec, idc, clock) ==
  LET r1 == addId(t, rec, idc)
  IN IF r1.err # "nil" THEN r1
     ELSE LET r2 == addCurrentDateTime(t, r1.rec, "CreatedAt", clock)
          IN IF r2.err # "nil" THEN [rec |-> r2.rec, idc |-> r1.idc, err |-> r2.err]
             ELSE LET r3 == addCurrentDateTime(t, r2.rec, "UpdatedAt", clock)
                  IN [rec |-> r3.rec, idc |-> r1.idc, err |-> r3.err]

\* getObjIdFromStruct: the object id of the record, an error, or a panic
getObjIdFromStruct(t, rec) ==
  LET v == Deref(t)
  IN IF Kind(v) # "Struct" THEN [err |-> "must be a struct", id |-> Oid(0)]
     ELSE LET kind == Schema(v[1]).id
          IN IF kind = "none" THEN [err |-> "panic", id |-> Oid(0)]
             ELSE IF kind = "ObjectId" THEN [err |-> "nil", id |-> rec.Id]
             ELSE IF kind = "Id"
                  THEN LET g == GetBSON(rec.Id)
                       IN IF g.panic THEN [err |-> "panic", id |-> Oid(0)]
                          ELSE [err |-> "nil", id |-> g.id]
             ELSE [err |-> "unknown type in Id field", id |-> Oid(0)]

\* ---------------------------------------------------------------- driver
\* GetSession: dials when the shared session is nil, then clones it
GetSession(sess, dialOk) ==
  IF ~sess /\ ~dialOk THEN [err |-> "dial", sess |-> FALSE, cloned |-> 0]
  ELSE [err |-> "nil", sess |-> TRUE, cloned |-> 1]

\* GetColl: the collection is named by the database and the type name
GetColl(db, coll) == [db |-> db, coll |-> coll]

InColl(st, c) == {d \in st : d.db = c.db /\ d.coll = c.coll}

\* the document the driver writes for a record (bson marshalling); a struct
\* with no Id field gets its _id from the server
Marshal(c, rec, srvId) ==
  LET kind == Schema(rec.type).id
      id == CASE kind = "ObjectId" -> rec.Id
              [] kind = "Id" -> GetBSON(rec.Id).id
              [] kind = "string" -> rec.Id
              [] OTHER -> [k |-> "srv", n |-> srvId]
  IN [db |-> c.db, coll |-> c.coll, id |-> id,
      CreatedAt |-> rec.CreatedAt, UpdatedAt |-> rec.UpdatedAt]

\* an unmarshalling that leaves the Id field as it is in a zero record
UnmarshalNoId(d, T) ==
  [type |-> T, Id |-> ZeroId(Schema(T).id),
   CreatedAt |-> IF Schema(T).created = "time" THEN d.CreatedAt ELSE 0,
   UpdatedAt |-> IF Schema(T).updated = "time" THEN d.UpdatedAt ELSE 0]

\* the record a document unmarshals into, for a target of struct type T
Unmarshal(d, T) ==
  LET kind == Schema(T).id
      id == CASE kind = "ObjectId" -> d.id
              [] kind = "Id" -> SetBSON(d.id).id
              [] kind = "string" -> d.id
              [] OTHER -> NoId
  IN [type |-> T, Id |-> id,
      CreatedAt |-> IF Schema(T).created = "time" THEN d.CreatedAt ELSE 0,
      UpdatedAt |-> IF Schema(T).updated = "time" THEN d.UpdatedAt ELSE 0]

\* Collection.Insert: the _id index is unique
CollInsert(st, d) ==
  IF \E e \in st : e.db = d.db /\ e.coll = d.coll /\ e.id = d.id
  THEN [err |-> "duplicate key", store |-> st]
  ELSE [err |-> "nil", store |-> st \cup {d}]

\* Collection.Update with an _id selector: replaces the whole document
CollUpdate(st, c, id, d) ==
  IF \E e \in InColl(st, c) : e.id = id
  THEN [err |-> "nil", store |-> {e \in st : ~(e.db = c.db /\ e.coll = c.coll /\ e.id = id)} \cup {d}]
  ELSE [err |-> "not found", store |-> st]

\* a RemoveId that reports success and removes nothing
CollRemoveIdKeep(st, c, id) == [err |-> "nil", store |-> st]

\* Collection.RemoveId
CollRemoveId(st, c, id) ==
  IF \E e \in InColl(st, c) : e.id = id
  THEN [err |-> "nil", store |-> {e \in st : ~(e.db = c.db /\ e.coll = c.coll /\ e.id = id)}]
  ELSE [err |-> "not found", store |-> st]

\* Collection.Find: the documents a filter selects
MatchAll == [all |-> TRUE, id |-> Oid(0)]
ById(v) == [all |-> FALSE, id |-> v]
CollFind(st, c, q) == {d \in InColl(st, c) : q.all \/ d.id = q.id}

Colls == {GetColl(db, T) : db \in DBNames, T \in StructNames}

\* ---------------------------------------------------------------- Insert
\* The sessions an Insert call closes when it returns: one deferred Close
\* for every session it cloned.
DeferredCloses(opened) == opened

\* Insert's loop carries st: the records, the documents, the id generator,
\* the shared session, the sessions cloned so far and the error.
\* The driver call of one record of type t, after its fields are set.
InsertWrite(st, t, rec, fault, db) ==
  LET d == Marshal(GetColl(db, typeName(t)), rec, st.idc + 1)
  IN IF fault THEN [st EXCEPT !.err = "storage"]
     ELSE IF CollInsert(st.store, d).err # "nil"
     THEN [st EXCEPT !.err = CollInsert(st.store, d).err]
     ELSE [st EXCEPT !.store = CollInsert(st.store, d).store,
                     !.idc = IF Schema(rec.type).id = "none" THEN @ + 1 ELSE @]

\* GetSession and the driver call, for one record
InsertStore(st, g, t, rec, fault, db) ==
  IF g.err # "nil" THEN [st EXCEPT !.err = g.err]
  ELSE InsertWrite([st EXCEPT !.sess = g.sess, !.opened = @ + g.cloned, !.calls = @ + 1],
                   t, rec, fault, db)

\* addNewFields' result f written through the pointer, then the rest
InsertFields(st, a, t, f, dialOk, fault, db) ==
  IF f.err # "nil"
  THEN [st EXCEPT !.heap = IF a.form = "ptr" THEN [@ EXCEPT ![a.ref] = f.rec] ELSE @,
                  !.idc = f.idc, !.err = f.err]
  ELSE InsertStore([st EXCEPT !.heap = IF a.form = "ptr" THEN [@ EXCEPT ![a.ref] = f.rec] ELSE @,
                              !.idc = f.idc],
                   GetSession(st.sess, dialOk), t, f.rec, fault, db)

\* the loop's body for one record
InsertOne(st, a, t, dialOk, fault, clock, db) ==
  IF ~isPtr(t) THEN [st EXCEPT !.err = "NoPtr"]
  ELSE InsertFields(st, a, t, addNewFields(t, RecOf(a, st.heap), st.idc, clock),
                    dialOk, fault, db)

\* a loop that goes on after a record fails, and returns the first error
RECURSIVE InsertLoopNoStop(_, _, _, _, _, _, _)
InsertLoopNoStop(recs, k, st, dialOk, fault, clock, db) ==
  IF k > Len(recs) THEN st
  ELSE InsertLoopNoStop(recs, k + 1,
         IF st.err # "nil"
         THEN [InsertOne([st EXCEPT !.err = "nil"], recs[k], ArgType(recs[k], st.heap),
                         dialOk, fault = st.calls + 1, clock, db)
                 EXCEPT !.err = st.err, !.failIdx = st.failIdx]
         ELSE [InsertOne(st, recs[k], ArgType(recs[k], st.heap),
                         dialOk, fault = st.calls + 1, clock, db)
                 EXCEPT !.failIdx = IF @ = 0 THEN k ELSE @],
         dialOk, fault, clock, db)

\* the loop from record k on; fault names the driver call that fails (0: none)
RECURSIVE InsertLoop(_, _, _, _, _, _, _)
InsertLoop(recs, k, st, dialOk, fault, clock, db) ==
  IF st.err # "nil" THEN [st EXCEPT !.failIdx = k - 1]
  ELSE IF k > Len(recs) THEN st
  ELSE InsertLoop(recs, k + 1,
         InsertOne(st, recs[k], ArgType(recs[k], st.heap), dialOk,
                   fault = st.calls + 1, clock, db),
         dialOk, fault, clock, db)

Args(forms, slots) ==
  {a \in [form : forms, ref : slots \cup {0}] : (a.ref = 0) = (a.form = "ptrint")}
Batches(forms, slots) == UNION {[1..n -> Args(forms, slots)] : n \in 1..MaxBatch}

Insert(recs, dialOk, fault) ==
  /\ idCounter + Len(recs) <= MaxIds
  /\ LET r == InsertLoop(recs, 1,
                [heap |-> heap, store |-> store, idc |-> idCounter, sess |-> mgoSession,
                 opened |-> 0, calls |-> 0,
                 err |-> "nil", failIdx |-> 0],
                dialOk, fault, now, database)
     IN /\ heap' = r.heap
        /\ store' = r.store
        /\ idCounter' = r.idc
        /\ mgoSession' = r.sess
        /\ open' = open + r.opened - DeferredCloses(r.opened)
        /\ lastCall' = [NoCall EXCEPT !.op = "Insert", !.recs = recs, !.err = r.err,
                                      !.failIdx = r.failIdx, !.peak = r.opened]
  /\ UNCHANGED <<now, database>>

\* ------------------------------------------------------- Find, FindById
\* Find's body; op and idstr are what lastCall records of the call
FindBody(op, idstr, a, q, dialOk, fault) ==
  LET t == ArgType(a, heap)
      g == GetSession(mgoSession, dialOk)
      c == GetColl(database, typeName(t))
      M == CollFind(store, c, q)
      call == [NoCall EXCEPT !.op = op, !.recs = <<a>>, !.id = idstr]
  IN IF ~isPtr(t)
     THEN /\ lastCall' = [call EXCEPT !.err = "NoPtr"]
          /\ UNCHANGED <<heap, mgoSession, open>>
     ELSE IF g.err # "nil"
     THEN /\ lastCall' = [call EXCEPT !.err = g.err]
          /\ UNCHANGED <<heap, mgoSession, open>>
     ELSE
       /\ mgoSession' = g.sess
       /\ open' = open + g.cloned - DeferredCloses(g.cloned)
       /\ IF fault
          THEN /\ lastCall' = [call EXCEPT !.err = "storage", !.peak = g.cloned]
               /\ UNCHANGED heap
          ELSE IF isSlice(t)
          THEN /\ lastCall' = [call EXCEPT !.peak = g.cloned, !.populated = TRUE,
                                 !.n = Cardinality(M),
                                 !.rows = {Unmarshal(d, typeName(t)) : d \in M}]
               /\ UNCHANGED heap
          ELSE IF M = {}
          THEN /\ lastCall' = [call EXCEPT !.err = "not found", !.peak = g.cloned]
               /\ UNCHANGED heap
          ELSE \E d \in M :
                 /\ heap' = [heap EXCEPT ![a.ref] = Unmarshal(d, heap[a.ref].type)]
                 /\ lastCall' = [call EXCEPT !.peak = g.cloned, !.populated = TRUE, !.n = 1]

Find(a, q, dialOk, fault) ==
  /\ FindBody("Find", q.id, a, q, dialOk, fault)
  /\ UNCHANGED <<store, idCounter, now, database>>

\* FindById: bson.ObjectIdHex panics on a string that is no hex object id,
\* before Find is called
FindById(a, idstr, dialOk, fault) ==
  /\ LET o == ObjectIdHex(idstr)
     IN IF o.panic
        THEN /\ lastCall' = [NoCall EXCEPT !.op = "FindById", !.recs = <<a>>,
                                           !.id = idstr, !.err = "panic"]
             /\ UNCHANGED <<heap, mgoSession, open>>
        ELSE FindBody("FindById", idstr, a, ById(o.id), dialOk, fault)
  /\ UNCHANGED <<store, idCounter, now, database>>

\* ---------------------------------------------------------------- Update
Update(a, dialOk, fault) ==
  LET t == ArgType(a, heap)
      u == addCurrentDateTime(t, RecOf(a, heap), "UpdatedAt", now)
      hp == IF a.form = "ptr" THEN [heap EXCEPT ![a.ref] = u.rec] ELSE heap
      g == GetSession(mgoSession, dialOk)
      o == getObjIdFromStruct(t, u.rec)
      c == GetColl(database, typeName(t))
      call == [NoCall EXCEPT !.op = "Update", !.recs = <<a>>]
  IN
  /\ UNCHANGED <<idCounter, now, database>>
  /\ IF ~isPtr(t)
     THEN /\ lastCall' = [call EXCEPT !.err = "NoPtr"]
          /\ UNCHANGED <<heap, store, mgoSession, open>>
     ELSE IF u.err # "nil"
     THEN /\ lastCall' = [call EXCEPT !.err = u.err]
          /\ UNCHANGED <<heap, store, mgoSession, open>>
     ELSE IF g.err # "nil"
     THEN /\ heap' = hp
          /\ lastCall' = [call EXCEPT !.err = g.err]
          /\ UNCHANGED <<store, mgoSession, open>>
     ELSE
       /\ heap' = hp
       /\ mgoSession' = g.sess
       /\ open' = open + g.cloned - DeferredCloses(g.cloned)
       /\ IF o.err # "nil"
          THEN /\ lastCall' = [call EXCEPT !.err = o.err, !.peak = g.cloned]
               /\ UNCHANGED store
          ELSE LET w == IF fault THEN [err |-> "storage", store |-> store]
                        ELSE CollUpdate(store, c, o.id, Marshal(c, u.rec, 0))
               IN /\ store' = w.store
                  /\ lastCall' = [call EXCEPT !.err = w.err, !.peak = g.cloned,
                                              !.id = Hex(o.id)]

\* ---------------------------------------------------------------- Delete
Delete(a, dialOk, fault) ==
  LET t == ArgType(a, heap)
      g == GetSession(mgoSession, dialOk)
      o == getObjIdFromStruct(t, RecOf(a, heap))
      c == GetColl(database, typeName(t))
      call == [NoCall EXCEPT !.op = "Delete", !.recs = <<a>>]
  IN
  /\ UNCHANGED <<heap, idCounter, now, database>>
  /\ IF ~isPtr(t)
     THEN /\ lastCall' = [call EXCEPT !.err = "NoPtr"]
          /\ UNCHANGED <<store, mgoSession, open>>
     ELSE IF g.err # "nil"
     THEN /\ lastCall' = [call EXCEPT !.err = g.err]
          /\ UNCHANGED <<store, mgoSession, open>>
     ELSE
       /\ mgoSession' = g.sess
       /\ open' = open + g.cloned - DeferredCloses(g.cloned)
       /\ IF o.err # "nil"
          THEN /\ lastCall' = [call EXCEPT !.err = o.err, !.peak = g.cloned]
               /\ UNCHANGED store
          ELSE LET w == IF fault THEN [err |-> "storage", store |-> store]
                        ELSE CollRemoveId(store, c, o.id)
               IN /\ store' = w.store
                  /\ lastCall' = [call EXCEPT !.err = w.err, !.peak = g.cloned,
                                              !.id = Hex(o.id)]

\* ----------------------------------------------------------------- Count
Count(a, dialOk, fault) ==
  LET t == ArgType(a, heap)
      g == GetSession(mgoSession, dialOk)
      c == GetColl(database, typeName(t))
      call == [NoCall EXCEPT !.op = "Count", !.recs = <<a>>]
  IN
  /\ UNCHANGED <<heap, store, idCounter, now, database>>
  /\ IF g.err # "nil"
     THEN /\ lastCall' = [call EXCEPT !.err = g.err]
          /\ UNCHANGED <<mgoSession, open>>
     ELSE
       /\ mgoSession' = g.sess
       /\ open' = open + g.cloned - DeferredCloses(g.cloned)
       /\ lastCall' = IF fault THEN [call EXCEPT !.err = "storage", !.peak = g.cloned]
                      ELSE [call EXCEPT !.n = Cardinality(InColl(store, c)), !.peak = g.cloned]

\* ------------------------------------------------------------ SetServers
SetServers(db, dialOk) ==
  /\ database' = db
  /\ mgoSession' = dialOk
  /\ lastCall' = [NoCall EXCEPT !.op = "SetServers",
                                !.err = IF dialOk THEN "nil" ELSE "dial"]
  /\ UNCHANGED <<heap, store, idCounter, now, open>>

\* ---------------------------------------------------------------- caller
\* the caller builds a record: a struct literal, its Id zero, known or new
NewRecord(h, T, n) ==
  /\ n <= MaxIds
  /\ heap' = [heap EXCEPT ![h] =
        [ZeroRec(T) EXCEPT !.Id = IF Schema(T).id = "none" THEN NoId
                                  ELSE [k |-> ZeroId(Schema(T).id).k, n |-> n]]]
  /\ heap'[h] # heap[h]
  /\ idCounter' = IF n > idCounter THEN n ELSE idCounter
  /\ lastCall' = [NoCall EXCEPT !.op = "caller"]
  /\ UNCHANGED <<store, now, mgoSession, database, open>>

\* the clock advances between calls
Tick ==
  /\ now < MaxTime
  /\ now' = now + 1
  /\ lastCall' = [NoCall EXCEPT !.op = "caller"]
  /\ UNCHANGED <<heap, store, idCounter, mgoSession, database, open>>

\* ------------------------------------------------------------------ spec
InitOver(types) ==
  /\ heap \in [Slots -> {ZeroRec(T) : T \in types}]
  /\ store = {}
  /\ idCounter = 0
  /\ now = 1
  /\ mgoSession \in BOOLEAN
  /\ database \in DBNames
  /\ open = 0
  /\ lastCall = NoCall

Dial == IF mgoSession THEN {TRUE} ELSE BOOLEAN
Filters == {MatchAll} \cup {ById(Oid(n)) : n \in 1..idCounter}
IdStrings == {HexStr(n) : n \in 0..idCounter}

\* the package's operations, for a caller that passes arguments of the given
\* forms that refer to the given records, over a driver whose writes and
\* reads fail as given
Ops(forms, slots, wfaults, rfaults) ==
  \/ \E recs \in Batches(forms, slots), dialOk \in Dial, fault \in 0..MaxBatch :
        /\ fault <= Len(recs)
        /\ fault > 0 => TRUE \in wfaults
        /\ Insert(recs, dialOk, fault)
  \/ \E a \in Args(forms \cup {"ptrslice"}, slots), q \in Filters, dialOk \in Dial,
        fault \in rfaults : Find(a, q, dialOk, fault)
  \/ \E a \in Args(forms, slots), s \in IdStrings, dialOk \in Dial, fault \in rfaults :
        FindById(a, s, dialOk, fault)
  \/ \E a \in Args(forms, slots), dialOk \in Dial, fault \in wfaults :
        Update(a, dialOk, fault)
  \/ \E a \in Args(forms, slots), dialOk \in Dial, fault \in wfaults :
        Delete(a, dialOk, fault)
  \/ \E a \in Args(forms \cup {"ptrslice", "slice", "ptrsliceptr"}, slots),
        dialOk \in Dial, fault \in rfaults : Count(a, dialOk, fault)
  \/ \E db \in DBNames, dialOk \in BOOLEAN : SetServers(db, dialOk)

\* A caller whose records carry identifiers: the native object id and the
\* string alias.
IdTypes == {"Customer", "Account"}
InitIds == InitOver(IdTypes)
NextIds ==
  \/ Ops({"ptr"}, Slots, {FALSE}, {FALSE})
  \/ \E h \in Slots, T \in IdTypes, n \in 0..(idCounter + 1) : NewRecord(h, T, n)
Spec == InitIds /\ [][NextIds]_vars

\* A caller that passes what the package rejects: values that are no
\* pointers, pointers to no struct, structs with no usable Id field; and a
\* driver whose writes fail.
ErrTypes == {"Account", "Note", "Tag"}
InitErr == InitOver(ErrTypes)
NextErr ==
  \/ Ops({"ptr", "val", "ptrint"}, Slots, BOOLEAN, {FALSE})
  \/ \E h \in Slots, T \in ErrTypes, n \in 0..(idCounter + 1) : NewRecord(h, T, n)
SpecErr == InitErr /\ [][NextErr]_vars

\* A caller whose record carries timestamps, as the clock advances, over a
\* driver whose calls fail.
TimeTypes == {"MongoTest"}
InitTime == InitOver(TimeTypes)
NextTime ==
  \/ Ops({"ptr"}, {1}, BOOLEAN, BOOLEAN)
  \/ \E T \in TimeTypes, n \in 0..(idCounter + 1) : NewRecord(1, T, n)
  \/ Tick
SpecTime == InitTime /\ [][NextTime]_vars

\* ================================================================ claims
\* what the claims read of a call
IsInsert(call) == call.op = "Insert"
NonPtr(a) == a.form = "val"
\* the documents of the collection a struct type is stored in
DocsOf(st, db, T) == {d \in st : d.db = db /\ d.coll = T}
\* the object id a record's Id field stands for, whatever its type
OidOf(rec) == Oid(rec.Id.n)
\* the string FindById accepts for a record's Id
IdString(rec) == HexStr(rec.Id.n)
\* the positions of a batch up to and including k
UpTo(recs, k) == {j \in DOMAIN recs : j <= k}
RefsUpTo(recs, k) == {recs[j].ref : j \in UpTo(recs, k)}

\* ---- C1
\* C1 as stated: an Insert call that is given a non-pointer value returns
\* NoPtr and leaves the stored collections as they were.
C1_Original ==
  [][(IsInsert(lastCall') /\ \E k \in DOMAIN lastCall'.recs : NonPtr(lastCall'.recs[k]))
       => (lastCall'.err = "NoPtr" /\ store' = store)]_vars

\* C1 amended: an Insert call whose first record is a non-pointer value
\* returns NoPtr and writes nothing: the stored collections and the caller's
\* records are as before. In any Insert call that returns NoPtr the record
\* it stopped at is a non-pointer value, and only the records before it were
\* written.
C1_NoPtrNoWrite ==
  [][IsInsert(lastCall') =>
       /\ NonPtr(lastCall'.recs[1])
            => (lastCall'.err = "NoPtr" /\ lastCall'.failIdx = 1
                /\ store' = store /\ heap' = heap /\ idCounter' = idCounter)
       /\ lastCall'.err = "NoPtr"
            => /\ lastCall'.failIdx \in DOMAIN lastCall'.recs
               /\ NonPtr(lastCall'.recs[lastCall'.failIdx])
               /\ store \subseteq store'
               /\ Cardinality(store') = Cardinality(store) + lastCall'.failIdx - 1]_vars

C1_Witness ==
  /\ IsInsert(lastCall) /\ lastCall.err = "NoPtr"
  /\ NonPtr(lastCall.recs[1])
  /\ store # {}

\* ---- C4
\* C4: a failing Insert call returns the error of the first record that
\* fails; the records after it are neither modified nor written, and the
\* records before it stay inserted.
C4_StopAtFirstFailure ==
  [][IsInsert(lastCall') =>
       LET recs == lastCall'.recs
           k == lastCall'.failIdx
       IN IF lastCall'.err = "nil"
          THEN k = 0 /\ Cardinality(store') = Cardinality(store) + Len(recs)
          ELSE /\ k \in DOMAIN recs
               /\ NonPtr(recs[k]) <=> lastCall'.err = "NoPtr"
               /\ \A j \in UpTo(recs, k - 1) : recs[j].form = "ptr"
               /\ store \subseteq store'
               /\ Cardinality(store') = Cardinality(store) + k - 1
               /\ \A h \in Slots : h \notin RefsUpTo(recs, k) => heap'[h] = heap[h]]_vars

C4_Witness ==
  /\ IsInsert(lastCall) /\ lastCall.err \notin {"nil", "NoPtr"}
  /\ lastCall.failIdx = 2
  /\ lastCall.recs[1].ref # lastCall.recs[2].ref
  /\ store # {}

\* ---- C8
\* C8: Update and Delete return an error value, and do not panic, when the
\* struct has no Id field or an Id field of neither identifier type.
C8_ErrorNotPanic ==
  (/\ lastCall.op \in {"Update", "Delete"}
   /\ lastCall.recs[1].form = "ptr"
   /\ Schema(heap[lastCall.recs[1].ref].type).id \in {"none", "string"})
    => lastCall.err \notin {"nil", "panic"}

\* ---- C10
\* C10: no cloned session stays open after an operation, and no operation
\* holds more than one cloned session at a time.
C10_OneHandle == open = 0 /\ lastCall.peak <= 1

\* ---- C2
\* the Id field holds a valid identifier of its type
ValidIdOf(rec) ==
  IF Schema(rec.type).id = "ObjectId" THEN Valid(rec.Id) ELSE IsObjectIdHex(rec.Id)

\* C2: after a successful Insert every record whose Id was not set before
\* the call holds a valid Id, its document is stored under it, and the Id
\* is that of no document stored before and of no other record of the call.
C2_FreshUniqueId ==
  [][(IsInsert(lastCall') /\ lastCall'.err = "nil") =>
       \A k \in DOMAIN lastCall'.recs :
         LET h == lastCall'.recs[k].ref
         IN heap[h].Id.n = 0 =>
              /\ ValidIdOf(heap'[h])
              /\ \A d \in store : d.id # OidOf(heap'[h])
              /\ \E d \in DocsOf(store', database, heap[h].type) : d.id = OidOf(heap'[h])
              /\ \A j \in DOMAIN lastCall'.recs :
                   lastCall'.recs[j].ref # h
                     => OidOf(heap'[lastCall'.recs[j].ref]) # OidOf(heap'[h])]_vars

C2_Witness ==
  /\ IsInsert(lastCall) /\ lastCall.err = "nil"
  /\ Len(lastCall.recs) = 2
  /\ lastCall.recs[1].ref # lastCall.recs[2].ref
  /\ heap[1].type # heap[2].type
  /\ \A h \in Slots : ValidIdOf(heap[h])
  /\ Cardinality(store) = 2

\* ---- C3
\* C3: a record that is passed to Insert with a valid Id keeps that Id, and
\* its document is stored under it.
C3_PresetKept ==
  [][(IsInsert(lastCall') /\ lastCall'.err = "nil") =>
       \A k \in DOMAIN lastCall'.recs :
         LET h == lastCall'.recs[k].ref
         IN ValidIdOf(heap[h]) =>
              /\ heap'[h].Id = heap[h].Id
              /\ \E d \in DocsOf(store', database, heap[h].type) : d.id = OidOf(heap[h])]_vars

\* ---- C5
\* what Insert does to the timestamps, in the record and in the document
InsertStamps ==
  (IsInsert(lastCall') /\ lastCall'.err = "nil") =>
    \A k \in DOMAIN lastCall'.recs :
      LET h == lastCall'.recs[k].ref
      IN /\ heap'[h].CreatedAt = now /\ heap'[h].UpdatedAt = now
         /\ \E d \in DocsOf(store', database, heap[h].type) :
              d.id = OidOf(heap'[h]) /\ d.CreatedAt = now /\ d.UpdatedAt = now

\* what Update does to the timestamps of the record
UpdateStampsInMemory ==
  (lastCall'.op = "Update" /\ lastCall'.recs[1].form = "ptr") =>
    LET h == lastCall'.recs[1].ref
    IN /\ heap'[h].CreatedAt = heap[h].CreatedAt
       /\ heap'[h].Id = heap[h].Id
       /\ lastCall'.err = "nil" => heap'[h].UpdatedAt = now
       /\ \A g \in Slots \ {h} : heap'[g] = heap[g]

\* C5 as stated: Insert sets both timestamps to the time of the call; Update
\* sets UpdatedAt and leaves CreatedAt as it was, in the record and in the
\* stored document.
C5_Original ==
  [][/\ InsertStamps
     /\ UpdateStampsInMemory
     /\ (lastCall'.op = "Update" /\ lastCall'.err = "nil") =>
          \A d \in store : \A e \in store' :
            (d.db = e.db /\ d.coll = e.coll /\ d.id = e.id)
              => e.CreatedAt = d.CreatedAt]_vars

\* C5 amended: Insert sets both timestamps to the time of the call, in the
\* record and in the document; Update sets UpdatedAt of the record and leaves
\* its CreatedAt as it was, and replaces the stored document by the record:
\* the document's CreatedAt is the record's, and is the stored one only when
\* the record carried it.
C5_Timestamps ==
  [][/\ InsertStamps
     /\ UpdateStampsInMemory
     /\ (lastCall'.op = "Update" /\ lastCall'.err = "nil") =>
          LET h == lastCall'.recs[1].ref
          IN /\ \E e \in DocsOf(store', database, heap[h].type) :
                  /\ e.id = OidOf(heap[h])
                  /\ e.CreatedAt = heap[h].CreatedAt
                  /\ e.UpdatedAt = now
             /\ \A d \in store : d.id # OidOf(heap[h]) => d \in store'
             /\ Cardinality(store') = Cardinality(store)]_vars

C5_Witness ==
  /\ lastCall.op = "Update" /\ lastCall.err = "nil"
  /\ heap[1].CreatedAt = 1 /\ heap[1].UpdatedAt = 2
  /\ \E d \in store : d.id = OidOf(heap[1]) /\ d.CreatedAt = 1 /\ d.UpdatedAt = 2

\* ---- C6
\* C6: FindById, called right after a successful Insert with a target of
\* the record's type and the record's Id, returns no error and makes the
\* target equal to the record.
C6_RoundTrip ==
  [][(IsInsert(lastCall) /\ lastCall.err = "nil" /\ lastCall'.op = "FindById") =>
       \A k \in DOMAIN lastCall.recs :
         LET r == heap[lastCall.recs[k].ref]
             t == lastCall'.recs[1]
         IN (t.form = "ptr" /\ heap[t.ref].type = r.type /\ lastCall'.id = IdString(r))
              => (lastCall'.err = "nil" /\ lastCall'.populated /\ heap'[t.ref] = r)]_vars

C6_Witness ==
  /\ lastCall.op = "FindById" /\ lastCall.err = "nil" /\ lastCall.populated
  /\ lastCall.recs[1].ref = 2
  /\ heap[1].type = "Account" /\ heap[2] = heap[1]
  /\ lastCall.id = IdString(heap[1])

\* ---- C7
Absent(st, db, T, n) == \A d \in DocsOf(st, db, T) : d.id # Oid(n)

\* a successful Delete leaves no document under the record's Id
DeleteRemoves ==
  (lastCall.op = "Delete" /\ lastCall.err = "nil") =>
    Absent(store, database, heap[lastCall.recs[1].ref].type,
           heap[lastCall.recs[1].ref].Id.n)

\* an Id no document is stored under gets one only by an Insert of a record
\* of the type
OnlyInsertStores ==
  \A T \in StructNames, n \in 1..MaxIds :
    (Absent(store, database, T, n) /\ ~Absent(store', database', T, n))
      => /\ IsInsert(lastCall')
         /\ \E k \in DOMAIN lastCall'.recs :
              heap'[lastCall'.recs[k].ref].type = T

\* FindById for an Id no document is stored under populates nothing, and
\* returns not found once it has a session
AbsentNotFound ==
  (/\ lastCall.op = "FindById" /\ lastCall.recs[1].form = "ptr"
   /\ lastCall.id.n >= 1
   /\ Absent(store, database, heap[lastCall.recs[1].ref].type, lastCall.id.n))
    => /\ ~lastCall.populated
       /\ lastCall.err \in {"not found", "dial"}
       /\ lastCall.err = "dial" => ~mgoSession

OfType(recs, n, hp, T) == {j \in UpTo(recs, n) : hp[recs[j].ref].type = T}

\* Count returns the number of documents of the collection that is named by
\* the struct type of its argument, whatever the argument's form
CountIsSize ==
  (lastCall.op = "Count" /\ lastCall.err = "nil") =>
    lastCall.n = Cardinality(DocsOf(store, database, heap[lastCall.recs[1].ref].type))

\* every record an Insert call inserts adds one document to the collection
\* of its type, and only Insert and Delete change a collection's size
InsertAddsOne ==
  \A T \in StructNames :
    /\ IsInsert(lastCall') =>
         Cardinality(DocsOf(store', database, T)) =
           Cardinality(DocsOf(store, database, T))
             + Cardinality(OfType(lastCall'.recs,
                                  IF lastCall'.err = "nil" THEN Len(lastCall'.recs)
                                  ELSE lastCall'.failIdx - 1,
                                  heap, T))
    /\ lastCall'.op \notin {"Insert", "Delete"} =>
         DocsOf(store', database', T) = DocsOf(store, database, T)

\* C9: Count returns 0 for an empty collection and K after K records of the
\* type were inserted, in one call or several, with no delete.
C9_CountInserted ==
  /\ []CountIsSize
  /\ [][InsertAddsOne]_vars

C9_Witness ==
  /\ lastCall.op = "Count" /\ lastCall.err = "nil" /\ lastCall.n = 2
  /\ lastCall.recs[1].form = "ptrsliceptr"

====
